---- MODULE Spec2Model ----
(***************************************************************************)
(* LangLink+ backend (server.js): the progress ledger (xp, level,          *)
(* per-language lesson counters), the streak tracker (streak,              *)
(* last_active), the progress query and the leaderboard, as the Express    *)
(* handlers drive them over one mysql2 connection.                         *)
(*                                                                         *)
(* A handler is an async function: it runs from one await to the next in   *)
(* one piece.  Every db.execute puts one command on the connection's       *)
(* queue; the connection runs one command at a time, in the order they     *)
(* were queued, and the handler continues when its command has finished.   *)
(* One action of the model is: the command at the head of the queue runs   *)
(* against the table, and the handler that issued it continues up to its   *)
(* next await (or its response).                                           *)
(*                                                                         *)
(* Time is counted in ticks, TicksPerDay to a day.  The Node process reads *)
(* its clock in local time (toDateString, getDate) and in UTC              *)
(* (toISOString); the database reads its own clock for CURDATE().          *)
(***************************************************************************)
EXTENDS Integers, Sequences, FiniteSets, TLC

VARIABLES
    users,    \* the users table: email -> the rows with that email, oldest first
    ops,      \* the requests received so far: handler, inputs, position, locals, response
    queue,    \* the connection's command queue: indices into ops, head runs first
    now,      \* the current instant, in ticks since 00:00 UTC of day 0
    tz,       \* the Node process's zone: local time = UTC + tz ticks
    dbtz,     \* the database session's zone: CURDATE() is the date at UTC + dbtz
    probe     \* input and results of a pure computation applied on its own

vars == <<users, ops, queue, now, tz, dbtz, probe>>

-----------------------------------------------------------------------------
(* Bounds of the model *)

MaxOps == 3          \* requests received in one behaviour
MaxTick == 4         \* the clock stops after this many ticks
TicksPerDay == 2     \* granularity of the clock
MaxProbeXP == 700    \* largest experience value the level rules are applied to

-----------------------------------------------------------------------------
(* Values *)

Absent == <<>>                 \* NULL column, undefined field
Some(v) == <<v>>
Get(o) == o[1]

SupportedLangs ==
    {"Spanish", "French", "Hindi", "Kannada", "Tamil", "Telugu", "Marathi",
     "Malayalam", "Bhojpuri", "Rajasthani", "Punjabi", "Kashmiri", "Urdu", "Korean"}

\* getProgressColumn: the column of a language, or null (Absent)
getProgressColumn(lang) ==
    IF lang \in SupportedLangs THEN Some(lang) ELSE Absent

\* Level calc of POST /api/submit
SubmitLevel(currentXP) ==
    IF currentXP >= 100 /\ currentXP < 300 THEN "Intermediate"
    ELSE IF currentXP >= 300 /\ currentXP < 600 THEN "Advanced"
    ELSE IF currentXP >= 600 THEN "Expert"
    ELSE "Beginner"

\* CompleteLevel with the Advanced band opening one point late
CompleteLevelLate(newXP) ==
    IF newXP >= 100 /\ newXP < 300 THEN "Intermediate"
    ELSE IF newXP > 300 /\ newXP < 600 THEN "Advanced"
    ELSE IF newXP >= 600 THEN "Expert"
    ELSE "Beginner"

\* Level calc of POST /api/complete-lesson
CompleteLevel(newXP) ==
    IF newXP >= 100 /\ newXP < 300 THEN "Intermediate"
    ELSE IF newXP >= 300 /\ newXP < 600 THEN "Advanced"
    ELSE IF newXP >= 600 THEN "Expert"
    ELSE "Beginner"

-----------------------------------------------------------------------------
(* Dates.  A date is a day number; an instant is a tick number. *)

\* new Date().toISOString().split('T')[0]: the UTC date of an instant
UTCDate(t) == t \div TicksPerDay

\* toDateString(), getDate(): the date of an instant in the process's zone
LocalDate(t) == (t + tz) \div TicksPerDay

\* CURDATE(): the date of an instant in the database session's zone
CurDate(t) == (t + dbtz) \div TicksPerDay

\* new Date('YYYY-MM-DD'): a date-only string is midnight UTC
ParseISODate(d) == d * TicksPerDay

\* a DATE column as mysql2 returns it (dbConfig sets neither dateStrings nor
\* timezone): a Date at midnight of that day in the process's zone
RowDate(d) == d * TicksPerDay - tz

-----------------------------------------------------------------------------
(* The users table.  An UPDATE ... WHERE email = ? sets every row with that   *)
(* email; a handler reads rows[0], the oldest.                              *)

\* the emails rows can have, in the order the requests name them; the
\* requests of the model name the first two, the others are the rest of
\* the table
Accounts == <<"a", "b", "c", "d", "e", "f", "g", "h", "i", "j", "k", "l">>

Emails == {Accounts[n] : n \in DOMAIN Accounts}

DefaultGainedXP == 20     \* const { email, gainedXP = 20, lang } = req.body
TotalLessons == 10        \* const totalLessons = 10
LeaderboardLimit == 10    \* ... ORDER BY xp DESC LIMIT 10

\* the defaults of the columns the INSERT does not name: the record's
\* lifecycle starts with streak 0, no last-active date and every counter 0
ColumnDefaults ==
    [streak |-> 0, last_active |-> Absent, progress |-> [l \in SupportedLangs |-> 0]]

\* the row INSERT INTO users (name, email, password, learning_lang, score,
\* level, xp) VALUES (?, ?, ?, ?, 0, "Beginner", 0) makes
NewUser ==
    [xp |-> 0, level |-> "Beginner", streak |-> ColumnDefaults.streak,
     last_active |-> ColumnDefaults.last_active, progress |-> ColumnDefaults.progress]

-----------------------------------------------------------------------------
(* Requests *)

Done == "done"

\* a request as received: the handler, the request body or parameters (email,
\* lang, and arg: the score or the gainedXP), and the handler's locals and
\* response fields before it has set any.  solo, pre and failed are history:
\* whether no other request was in flight so far, the rows the request found,
\* and the command whose failure the request answered 500 for.
NewOp(kind, email, lang, arg) ==
    [kind |-> kind, email |-> email, lang |-> lang, arg |-> arg,
     pc |-> "select", status |-> 0,
     gain |-> 0, xp |-> 0, level |-> "", progress |-> 0, streak |-> 0, today |-> Absent,
     total |-> 0, board |-> <<>>,
     solo |-> \A j \in DOMAIN ops : ops[j].pc = Done,
     pre |-> IF email \in Emails THEN users[email] ELSE <<>>,
     failed |-> ""]

\* res.status(code).json(...) with nothing awaited: the request ends
Reply(o, code) == [o EXCEPT !.pc = Done, !.status = code]

\* a request arrives: those in flight are no longer alone
Receive(o) ==
    /\ Len(ops) < MaxOps
    /\ ops' = Append([j \in DOMAIN ops |->
                        IF ops[j].pc = Done THEN ops[j]
                        ELSE [ops[j] EXCEPT !.solo = FALSE]], o)
    /\ queue' = IF o.pc = Done THEN queue ELSE Append(queue, Len(ops) + 1)
    /\ UNCHANGED <<users, now, tz, dbtz, probe>>

\* the command at the head of the queue is request i's, at position pc
AtHead(i, kind, pc) ==
    /\ queue # <<>>
    /\ i = Head(queue)
    /\ ops[i].kind = kind
    /\ ops[i].pc = pc

\* request i's handler goes on as o and awaits another command
Await(i, o) ==
    /\ ops' = [ops EXCEPT ![i] = o]
    /\ queue' = Append(Tail(queue), i)

\* request i's handler goes on as o and has answered
Finish(i, o) ==
    /\ ops' = [ops EXCEPT ![i] = o]
    /\ queue' = Tail(queue)

-----------------------------------------------------------------------------
(* POST /api/register *)

\* name, email and password are checked, then SELECT id ... WHERE email = ?
StartRegister(email, filled) ==
    Receive(IF ~filled \/ email = ""
            THEN Reply(NewOp("register", email, "", Absent), 400)
            ELSE NewOp("register", email, "", Absent))

\* the SELECT has run: 409 when a row exists, else bcrypt.hash is awaited
RegisterSelect(i) ==
    /\ AtHead(i, "register", "select")
    /\ IF Len(users[ops[i].email]) > 0
       THEN Finish(i, Reply(ops[i], 409))
       ELSE Finish(i, [ops[i] EXCEPT !.pc = "hash"])
    /\ UNCHANGED <<users, now, tz, dbtz, probe>>

\* the hash is ready: the INSERT is queued
RegisterHashed(i) ==
    /\ i \in DOMAIN ops
    /\ ops[i].kind = "register"
    /\ ops[i].pc = "hash"
    /\ ops' = [ops EXCEPT ![i].pc = "insert"]
    /\ queue' = Append(queue, i)
    /\ UNCHANGED <<users, now, tz, dbtz, probe>>

\* the INSERT has run
RegisterInsert(i) ==
    /\ AtHead(i, "register", "insert")
    /\ users' = [users EXCEPT ![ops[i].email] = Append(@, NewUser)]
    /\ Finish(i, Reply(ops[i], 200))
    /\ UNCHANGED <<now, tz, dbtz, probe>>

-----------------------------------------------------------------------------
(* POST /api/submit *)

\* Number(score) * 10, the score being a number
XpGain(score) == Get(score) * 10

\* StartSubmit with a missing score taken as 0
StartSubmitDefaultScore(email, score, lang) ==
    Receive(IF email = "" \/ lang = ""
            THEN Reply(NewOp("submit", email, lang, score), 400)
            ELSE IF getProgressColumn(lang) = Absent
            THEN Reply(NewOp("submit", email, lang, score), 400)
            ELSE [NewOp("submit", email, lang, score) EXCEPT
                     !.gain = IF score = Absent THEN 0 ELSE XpGain(score)])

\* the fields are checked, the language's column is looked up, and
\* SELECT xp, <col> AS progress ... is queued
StartSubmit(email, score, lang) ==
    Receive(IF email = "" \/ score = Absent \/ lang = ""
            THEN Reply(NewOp("submit", email, lang, score), 400)
            ELSE IF getProgressColumn(lang) = Absent
            THEN Reply(NewOp("submit", email, lang, score), 400)
            ELSE [NewOp("submit", email, lang, score) EXCEPT !.gain = XpGain(score)])

\* SubmitCompute with the gain taken as the new xp
SubmitComputeNoAdd(o, row) ==
    [o EXCEPT !.xp = o.gain,
              !.progress = row.progress[o.lang] + 1,
              !.level = SubmitLevel(o.gain),
              !.pc = "update"]

\* SubmitCompute with the level taken from the xp read, not the new xp
SubmitComputeStaleLevel(o, row) ==
    [o EXCEPT !.xp = row.xp + o.gain,
              !.progress = row.progress[o.lang] + 1,
              !.level = SubmitLevel(row.xp),
              !.pc = "update"]

\* currentXP, newProgress and level from the row read ((x || 0) is x: the
\* columns hold numbers)
SubmitCompute(o, row) ==
    [o EXCEPT !.xp = row.xp + o.gain,
              !.progress = row.progress[o.lang] + 1,
              !.level = SubmitLevel(row.xp + o.gain),
              !.pc = "update"]

\* SubmitWrite as increments done by the database, on the row as it is
SubmitWriteIncrement(o, row) ==
    [row EXCEPT !.xp = @ + o.gain, !.level = SubmitLevel(row.xp + o.gain),
                !.progress[o.lang] = @ + 1]

\* SubmitWrite without the language's column
SubmitWriteNoProgress(o, row) ==
    [row EXCEPT !.xp = o.xp, !.level = o.level]

\* UPDATE users SET xp = ?, level = ?, <col> = ? WHERE email = ?
SubmitWrite(o, row) ==
    [row EXCEPT !.xp = o.xp, !.level = o.level, !.progress[o.lang] = o.progress]

\* the SELECT has run: 404 without a row, else the UPDATE is queued
SubmitSelect(i) ==
    /\ AtHead(i, "submit", "select")
    /\ IF Len(users[ops[i].email]) = 0
       THEN Finish(i, Reply(ops[i], 404))
       ELSE Await(i, SubmitCompute(ops[i], users[ops[i].email][1]))
    /\ UNCHANGED <<users, now, tz, dbtz, probe>>

\* SubmitUpdate writing xp and level first and leaving the counter to a
\* second statement
SubmitUpdateTwoWrites(i) ==
    /\ AtHead(i, "submit", "update")
    /\ users' = [users EXCEPT ![ops[i].email] =
                    [k \in DOMAIN @ |-> SubmitWriteNoProgress(ops[i], @[k])]]
    /\ Await(i, [ops[i] EXCEPT !.pc = "counter"])
    /\ UNCHANGED <<now, tz, dbtz, probe>>

\* the UPDATE has run: xp, level and lessonsCompleted are returned
SubmitUpdate(i) ==
    /\ AtHead(i, "submit", "update")
    /\ users' = [users EXCEPT ![ops[i].email] =
                    [k \in DOMAIN @ |-> SubmitWrite(ops[i], @[k])]]
    /\ Finish(i, Reply(ops[i], 200))
    /\ UNCHANGED <<now, tz, dbtz, probe>>

-----------------------------------------------------------------------------
(* POST /api/complete-lesson *)

\* CompleteStreak with a gap resetting the streak to 0
CompleteStreakResetZero(last_active, streak, today) ==
    IF last_active # Absent
    THEN LET diffDays ==
                 (ParseISODate(today) - RowDate(Get(last_active))) \div TicksPerDay
         IN  IF diffDays = 1 THEN streak + 1
             ELSE IF diffDays > 1 THEN 0
             ELSE streak
    ELSE 1

\* the streak step: today is the UTC date string, the row's date the Date
\* mysql2 made of it
CompleteStreak(last_active, streak, today) ==
    IF last_active # Absent
    THEN LET diffDays ==
                 (ParseISODate(today) - RowDate(Get(last_active))) \div TicksPerDay
         IN  IF diffDays = 1 THEN streak + 1
             ELSE IF diffDays > 1 THEN 1
             ELSE streak
    ELSE 1

\* const { email, gainedXP = 20, lang } = req.body
GainedXP(gainedXP) == IF gainedXP = Absent THEN DefaultGainedXP ELSE Get(gainedXP)

\* StartComplete refusing a language without a column, as submit does
StartCompleteStrict(email, gainedXP, lang) ==
    LET o == [NewOp("complete", email, lang, gainedXP) EXCEPT !.gain = GainedXP(gainedXP)]
    IN  Receive(IF email = "" THEN Reply(o, 400)
                ELSE IF lang # "" /\ getProgressColumn(lang) = Absent THEN Reply(o, 400)
                ELSE o)

\* email is checked and SELECT xp, level, last_active, streak ... is queued
StartComplete(email, gainedXP, lang) ==
    LET o == [NewOp("complete", email, lang, gainedXP) EXCEPT !.gain = GainedXP(gainedXP)]
    IN  Receive(IF email = "" THEN Reply(o, 400) ELSE o)

\* today, streak, newXP and newLevel from the row read, at instant t
CompleteCompute(o, row, t) ==
    [o EXCEPT !.today = Some(UTCDate(t)),
              !.streak = CompleteStreak(row.last_active, row.streak, UTCDate(t)),
              !.xp = row.xp + o.gain,
              !.level = CompleteLevel(row.xp + o.gain),
              !.pc = "update"]

\* UPDATE users SET xp = ?, level = ?, last_active = ?, streak = ? WHERE email = ?
CompleteWrite(o, row) ==
    [row EXCEPT !.xp = o.xp, !.level = o.level,
                !.last_active = o.today, !.streak = o.streak]

\* UPDATE users SET <col> = <col> + 1 WHERE email = ?
CompleteBumpWrite(o, row) ==
    [row EXCEPT !.progress[o.lang] = @ + 1]

\* the SELECT has run: 404 without a row, else the main UPDATE is queued
CompleteSelect(i) ==
    /\ AtHead(i, "complete", "select")
    /\ IF Len(users[ops[i].email]) = 0
       THEN Finish(i, Reply(ops[i], 404))
       ELSE Await(i, CompleteCompute(ops[i], users[ops[i].email][1], now))
    /\ UNCHANGED <<users, now, tz, dbtz, probe>>

\* CompleteUpdate with the counter set in the main UPDATE
CompleteUpdateOneWrite(i) ==
    /\ AtHead(i, "complete", "update")
    /\ users' = [users EXCEPT ![ops[i].email] =
                    [k \in DOMAIN @ |->
                        IF ops[i].lang # "" /\ getProgressColumn(ops[i].lang) # Absent
                        THEN CompleteBumpWrite(ops[i], CompleteWrite(ops[i], @[k]))
                        ELSE CompleteWrite(ops[i], @[k])]]
    /\ Finish(i, Reply(ops[i], 200))
    /\ UNCHANGED <<now, tz, dbtz, probe>>

\* CompleteUpdate with an UPDATE that has no WHERE clause
CompleteUpdateEveryRow(i) ==
    /\ AtHead(i, "complete", "update")
    /\ users' = [e \in Emails |->
                    [k \in DOMAIN users[e] |-> CompleteWrite(ops[i], users[e][k])]]
    /\ IF ops[i].lang # "" /\ getProgressColumn(ops[i].lang) # Absent
       THEN Await(i, [ops[i] EXCEPT !.pc = "bump"])
       ELSE Finish(i, Reply(ops[i], 200))
    /\ UNCHANGED <<now, tz, dbtz, probe>>

\* the main UPDATE has run: with a language that has a column the bump is
\* queued, else xp, level and streak are returned
CompleteUpdate(i) ==
    /\ AtHead(i, "complete", "update")
    /\ users' = [users EXCEPT ![ops[i].email] =
                    [k \in DOMAIN @ |-> CompleteWrite(ops[i], @[k])]]
    /\ IF ops[i].lang # "" /\ getProgressColumn(ops[i].lang) # Absent
       THEN Await(i, [ops[i] EXCEPT !.pc = "bump"])
       ELSE Finish(i, Reply(ops[i], 200))
    /\ UNCHANGED <<now, tz, dbtz, probe>>

\* the bump has run: xp, level and streak are returned
CompleteBump(i) ==
    /\ AtHead(i, "complete", "bump")
    /\ users' = [users EXCEPT ![ops[i].email] =
                    [k \in DOMAIN @ |-> CompleteBumpWrite(ops[i], @[k])]]
    /\ Finish(i, Reply(ops[i], 200))
    /\ UNCHANGED <<now, tz, dbtz, probe>>

-----------------------------------------------------------------------------
(* POST /api/update-streak *)

\* newStreak: today and yesterday are the process's local dates at instant t,
\* last the local date of the Date mysql2 made of the row's date
StreakAdvance(lastActive, currentStreak, t) ==
    IF lastActive = Absent THEN 1
    ELSE LET last == LocalDate(RowDate(Get(lastActive)))
             today == LocalDate(t)
             yesterday == LocalDate(t) - 1
         IN  IF last = yesterday THEN currentStreak + 1
             ELSE IF last # today THEN 1
             ELSE currentStreak

\* email is checked and SELECT last_active, streak ... is queued
StartStreak(email) ==
    Receive(IF email = ""
            THEN Reply(NewOp("streak", email, "", Absent), 400)
            ELSE NewOp("streak", email, "", Absent))

\* today and newStreak from the row read, at instant t
StreakCompute(o, row, t) ==
    [o EXCEPT !.today = Some(LocalDate(t)),
              !.streak = StreakAdvance(row.last_active, row.streak, t),
              !.pc = "update"]

\* UPDATE users SET streak = ?, last_active = CURDATE() WHERE email = ?,
\* run by the database at instant t
StreakWrite(o, row, t) ==
    [row EXCEPT !.streak = o.streak, !.last_active = Some(CurDate(t))]

\* the SELECT has run: 404 without a row, else the UPDATE is queued
StreakSelect(i) ==
    /\ AtHead(i, "streak", "select")
    /\ IF Len(users[ops[i].email]) = 0
       THEN Finish(i, Reply(ops[i], 404))
       ELSE Await(i, StreakCompute(ops[i], users[ops[i].email][1], now))
    /\ UNCHANGED <<users, now, tz, dbtz, probe>>

\* the UPDATE has run: the streak is returned
StreakUpdate(i) ==
    /\ AtHead(i, "streak", "update")
    /\ users' = [users EXCEPT ![ops[i].email] =
                    [k \in DOMAIN @ |-> StreakWrite(ops[i], @[k], now)]]
    /\ Finish(i, Reply(ops[i], 200))
    /\ UNCHANGED <<now, tz, dbtz, probe>>

-----------------------------------------------------------------------------
(* GET /api/progress/:email/:lang *)

\* the language's column is looked up and SELECT xp, level, <col> AS progress
\* ... is queued
StartProgress(email, lang) ==
    Receive(IF getProgressColumn(lang) = Absent
            THEN Reply(NewOp("progress", email, lang, Absent), 400)
            ELSE NewOp("progress", email, lang, Absent))

\* ProgressRead with the count shown no higher than totalLessons
ProgressReadCapped(o, row) ==
    [o EXCEPT !.xp = row.xp, !.level = row.level,
              !.progress = IF row.progress[o.lang] > TotalLessons
                           THEN TotalLessons ELSE row.progress[o.lang],
              !.total = TotalLessons]

\* xp, level, lessonsCompleted and totalLessons of the response
\* ((rows[0].progress || 0) is the column's number)
ProgressRead(o, row) ==
    [o EXCEPT !.xp = row.xp, !.level = row.level,
              !.progress = row.progress[o.lang],
              !.total = TotalLessons]

\* the SELECT has run: 404 without a row, else the row's values are returned
ProgressSelect(i) ==
    /\ AtHead(i, "progress", "select")
    /\ IF Len(users[ops[i].email]) = 0
       THEN Finish(i, Reply(ops[i], 404))
       ELSE Finish(i, Reply(ProgressRead(ops[i], users[ops[i].email][1]), 200))
    /\ UNCHANGED <<users, now, tz, dbtz, probe>>

-----------------------------------------------------------------------------
(* GET /api/leaderboard *)

\* the rows of a table, each named by its email and its place among the rows
\* with that email
RowsOf(table) ==
    UNION {{<<e, k>> : k \in DOMAIN table[e]} : e \in Emails}

\* row r was inserted before row q
Earlier(r, q) ==
    LET n(e) == CHOOSE m \in DOMAIN Accounts : Accounts[m] = e
    IN  n(r[1]) < n(q[1]) \/ (r[1] = q[1] /\ r[2] < q[2])

\* the orders the database may give rows of equal xp: ORDER BY xp DESC names
\* no other key
TieOrders == {"oldest first", "newest first"}

\* OrderByXpDesc, ascending
OrderByXpAsc(table, tie) ==
    LET rows == RowsOf(table)
        xp(r) == table[r[1]][r[2]].xp
        Before(r, q) ==
            \/ xp(r) < xp(q)
            \/ xp(r) = xp(q) /\ IF tie = "oldest first" THEN Earlier(r, q)
                                                        ELSE Earlier(q, r)
    IN  [p \in 1..Cardinality(rows) |->
            CHOOSE r \in rows : Cardinality({q \in rows : Before(q, r)}) = p - 1]

\* ORDER BY xp DESC: the rows of the table, a row of more xp before a row of
\* less
OrderByXpDesc(table, tie) ==
    LET rows == RowsOf(table)
        xp(r) == table[r[1]][r[2]].xp
        Before(r, q) ==
            \/ xp(r) > xp(q)
            \/ xp(r) = xp(q) /\ IF tie = "oldest first" THEN Earlier(r, q)
                                                        ELSE Earlier(q, r)
    IN  [p \in 1..Cardinality(rows) |->
            CHOOSE r \in rows : Cardinality({q \in rows : Before(q, r)}) = p - 1]

\* LIMIT 10
Limit(rows) ==
    SubSeq(rows, 1, IF Len(rows) < LeaderboardLimit THEN Len(rows) ELSE LeaderboardLimit)

\* SELECT name, learning_lang, score, xp, level FROM users ORDER BY xp DESC
\* LIMIT 10: the rows returned, each with the row it is a projection of
Leaderboard(table, tie) ==
    LET top == Limit(OrderByXpDesc(table, tie))
    IN  [p \in DOMAIN top |->
            [row |-> top[p],
             xp |-> table[top[p][1]][top[p][2]].xp,
             level |-> table[top[p][1]][top[p][2]].level]]

\* the SELECT is queued
StartLeaderboard ==
    Receive(NewOp("leaderboard", "", "", Absent))

\* the SELECT has run: its rows are returned
LeaderboardSelect(i) ==
    /\ AtHead(i, "leaderboard", "select")
    /\ \E tie \in TieOrders :
          Finish(i, Reply([ops[i] EXCEPT !.board = Leaderboard(users, tie)], 200))
    /\ UNCHANGED <<users, now, tz, dbtz, probe>>

-----------------------------------------------------------------------------
(* The store and the clock *)

\* the command at the head of the queue fails: db.execute rejects, the
\* handler's catch answers 500
QueryFails(i) ==
    /\ queue # <<>>
    /\ i = Head(queue)
    /\ Finish(i, Reply([ops[i] EXCEPT !.failed = ops[i].pc], 500))
    /\ UNCHANGED <<users, now, tz, dbtz, probe>>

Tick ==
    /\ now < MaxTick
    /\ now' = now + 1
    /\ UNCHANGED <<users, ops, queue, tz, dbtz, probe>>

-----------------------------------------------------------------------------
(* The level rules applied on their own *)

NoProbe == [xp |-> 0, applied |-> FALSE, submit |-> "", complete |-> ""]

ApplyLevel ==
    /\ ~probe.applied
    /\ probe' = [probe EXCEPT !.applied = TRUE,
                              !.submit = SubmitLevel(probe.xp),
                              !.complete = CompleteLevel(probe.xp)]
    /\ UNCHANGED <<users, ops, queue, now, tz, dbtz>>

-----------------------------------------------------------------------------
(* The two streak steps applied on their own, to one row at one instant *)

\* what a handler's streak step makes of a row: the handler's today, and the
\* streak and last-active date its UPDATE leaves
StepOf(o, row) ==
    [today |-> o.today, streak |-> row.streak, last_active |-> row.last_active]

\* update-streak's step (208-223) and complete-lesson's (772-792) on user a's
\* row as it is now, the UPDATE running at the instant of the computation
ApplyPolicies ==
    /\ ~probe.applied
    /\ queue = <<>>
    /\ Len(users["a"]) > 0
    /\ LET row == users["a"][1]
           o == NewOp("policy", "a", "", Absent)
           a == StreakCompute(o, row, now)
           b == CompleteCompute(o, row, now)
       IN  probe' = [applied |-> TRUE,
                     row |-> row,
                     A |-> StepOf(a, StreakWrite(a, row, now)),
                     B |-> StepOf(b, CompleteWrite(b, row))]
    /\ UNCHANGED <<users, ops, queue, now, tz, dbtz>>

-----------------------------------------------------------------------------
(* The system: every handler, every input, the store failing, the clock *)

Zones == {-1, 0, 1}

EmailInputs == {"a", "b", ""}
LangInputs == {"Spanish", "Klingon", ""}
ScoreInputs == {Absent, Some(0), Some(10), Some(25), Some(0 - 5)}
GainedInputs == {Absent, Some(250), Some(0 - 30)}

\* user a is registered and has done nothing, user b is not registered
Init ==
    /\ users = [e \in Emails |-> IF e = "a" THEN <<NewUser>> ELSE <<>>]
    /\ ops = <<>>
    /\ queue = <<>>
    /\ now = 0
    /\ tz \in Zones
    /\ dbtz \in Zones
    /\ probe = NoProbe

Next ==
    \/ \E e \in EmailInputs, f \in BOOLEAN : StartRegister(e, f)
    \/ \E e \in EmailInputs, s \in ScoreInputs, l \in LangInputs : StartSubmit(e, s, l)
    \/ \E e \in EmailInputs, g \in GainedInputs, l \in LangInputs : StartComplete(e, g, l)
    \/ \E e \in EmailInputs : StartStreak(e)
    \/ \E e \in EmailInputs \ {""}, l \in LangInputs \ {""} : StartProgress(e, l)
    \/ StartLeaderboard
    \/ \E i \in DOMAIN ops : RegisterSelect(i)
    \/ \E i \in DOMAIN ops : RegisterHashed(i)
    \/ \E i \in DOMAIN ops : RegisterInsert(i)
    \/ \E i \in DOMAIN ops : SubmitSelect(i)
    \/ \E i \in DOMAIN ops : SubmitUpdate(i)
    \/ \E i \in DOMAIN ops : CompleteSelect(i)
    \/ \E i \in DOMAIN ops : CompleteUpdate(i)
    \/ \E i \in DOMAIN ops : CompleteBump(i)
    \/ \E i \in DOMAIN ops : StreakSelect(i)
    \/ \E i \in DOMAIN ops : StreakUpdate(i)
    \/ \E i \in DOMAIN ops : ProgressSelect(i)
    \/ \E i \in DOMAIN ops : LeaderboardSelect(i)
    \/ \E i \in DOMAIN ops : QueryFails(i)
    \/ Tick

Spec == Init /\ [][Next]_vars

-----------------------------------------------------------------------------
(* The ledger: register, submit and complete-lesson requests for valid       *)
(* input, in every interleaving, with the store up and the clock standing    *)

InitLedger ==
    /\ Init
    /\ tz = 0
    /\ dbtz = 0

NextLedger ==
    \/ StartRegister("b", TRUE)
    \/ \E e \in {"a", "b"}, s \in {Some(10), Some(25)} : StartSubmit(e, s, "Spanish")
    \/ \E l \in {"Spanish", ""} : StartComplete("a", Absent, l)
    \/ \E i \in DOMAIN ops : RegisterSelect(i)
    \/ \E i \in DOMAIN ops : RegisterHashed(i)
    \/ \E i \in DOMAIN ops : RegisterInsert(i)
    \/ \E i \in DOMAIN ops : SubmitSelect(i)
    \/ \E i \in DOMAIN ops : SubmitUpdate(i)
    \/ \E i \in DOMAIN ops : CompleteSelect(i)
    \/ \E i \in DOMAIN ops : CompleteUpdate(i)
    \/ \E i \in DOMAIN ops : CompleteBump(i)

SpecLedger == InitLedger /\ [][NextLedger]_vars

-----------------------------------------------------------------------------
(* The streak: update-streak and complete-lesson requests of user a, in      *)
(* every interleaving, over several days, in every pair of zones.  User a    *)
(* starts with no activity or with a streak earned on earlier days.          *)

PriorStreaks == {1, 2}
PriorDates == {-1, 0}

InitStreak ==
    /\ \E row \in {NewUser} \cup
                  {[NewUser EXCEPT !.streak = s, !.last_active = Some(d)] :
                      s \in PriorStreaks, d \in PriorDates} :
          users = [e \in Emails |-> IF e = "a" THEN <<row>> ELSE <<>>]
    /\ ops = <<>>
    /\ queue = <<>>
    /\ now = TicksPerDay
    /\ tz \in Zones
    /\ dbtz \in Zones
    /\ probe = NoProbe

NextStreak ==
    \/ StartStreak("a")
    \/ StartComplete("a", Absent, "")
    \/ \E i \in DOMAIN ops : CompleteSelect(i)
    \/ \E i \in DOMAIN ops : CompleteUpdate(i)
    \/ \E i \in DOMAIN ops : StreakSelect(i)
    \/ \E i \in DOMAIN ops : StreakUpdate(i)
    \/ Tick

SpecStreak == InitStreak /\ [][NextStreak]_vars

-----------------------------------------------------------------------------
(* Submissions: submit requests with good and bad bodies, for the registered *)
(* user a and the unregistered user b, in every interleaving                 *)

SubmitBodies ==
    {<<"a", Some(10), "Spanish">>, <<"a", Some(0), "Spanish">>,
     <<"a", Some(0 - 5), "Spanish">>, <<"b", Some(10), "Spanish">>,
     <<"", Some(10), "Spanish">>, <<"a", Absent, "Spanish">>,
     <<"a", Some(10), "">>, <<"a", Some(10), "Klingon">>}

NextSubmit ==
    \/ \E b \in SubmitBodies : StartSubmit(b[1], b[2], b[3])
    \/ \E i \in DOMAIN ops : SubmitSelect(i)
    \/ \E i \in DOMAIN ops : SubmitUpdate(i)

SpecSubmit == InitLedger /\ [][NextSubmit]_vars

-----------------------------------------------------------------------------
(* Lessons: complete-lesson requests of user a, with and without gainedXP,   *)
(* with no language, a language that has a column and one that has none, in  *)
(* every interleaving, in every zone of the process, on the day after day 0. *)
(* User a starts as in the streak specification; user b is registered.       *)

InitLesson ==
    /\ \E row \in {NewUser} \cup
                  {[NewUser EXCEPT !.streak = s, !.last_active = Some(d)] :
                      s \in PriorStreaks, d \in PriorDates} :
          users = [e \in Emails |-> IF e = "a" THEN <<row>>
                                    ELSE IF e = "b" THEN <<NewUser>> ELSE <<>>]
    /\ ops = <<>>
    /\ queue = <<>>
    /\ now = TicksPerDay
    /\ tz \in Zones
    /\ dbtz = 0
    /\ probe = NoProbe

LessonBodies ==
    {<<"a", Absent, "">>, <<"a", Some(250), "">>,
     <<"a", Absent, "Spanish">>, <<"a", Absent, "Klingon">>}

NextLesson ==
    \/ \E b \in LessonBodies : StartComplete(b[1], b[2], b[3])
    \/ \E i \in DOMAIN ops : CompleteSelect(i)
    \/ \E i \in DOMAIN ops : CompleteUpdate(i)
    \/ \E i \in DOMAIN ops : CompleteBump(i)

SpecLesson == InitLesson /\ [][NextLesson]_vars

-----------------------------------------------------------------------------
(* Failures: submit, complete-lesson, update-streak and progress requests of *)
(* user a, in every interleaving, any command failing, the clock standing    *)

NextFailure ==
    \/ StartSubmit("a", Some(10), "Spanish")
    \/ StartComplete("a", Absent, "Spanish")
    \/ StartStreak("a")
    \/ StartProgress("a", "Spanish")
    \/ \E i \in DOMAIN ops : SubmitSelect(i)
    \/ \E i \in DOMAIN ops : SubmitUpdate(i)
    \/ \E i \in DOMAIN ops : CompleteSelect(i)
    \/ \E i \in DOMAIN ops : CompleteUpdate(i)
    \/ \E i \in DOMAIN ops : CompleteBump(i)
    \/ \E i \in DOMAIN ops : StreakSelect(i)
    \/ \E i \in DOMAIN ops : StreakUpdate(i)
    \/ \E i \in DOMAIN ops : ProgressSelect(i)
    \/ \E i \in DOMAIN ops : QueryFails(i)

SpecFailure == InitLedger /\ [][NextFailure]_vars

-----------------------------------------------------------------------------
(* Progress: progress queries for users a and b, and submit and              *)
(* complete-lesson requests of user a for Spanish, in every interleaving.    *)
(* User a has submitted score 10 for Spanish some number of times before.    *)

\* the row n submits of score 10 for Spanish leave a new user
Practised(n) ==
    [NewUser EXCEPT !.xp = n * XpGain(Some(10)),
                    !.level = SubmitLevel(n * XpGain(Some(10))),
                    !.progress["Spanish"] = n]

PriorLessons == {0, 9, 10}

InitProgress ==
    /\ \E n \in PriorLessons :
          users = [e \in Emails |-> IF e = "a" THEN <<Practised(n)>> ELSE <<>>]
    /\ ops = <<>>
    /\ queue = <<>>
    /\ now = 0
    /\ tz = 0
    /\ dbtz = 0
    /\ probe = NoProbe

NextProgress ==
    \/ \E e \in {"a", "b"}, l \in {"Spanish", "French", "Klingon"} : StartProgress(e, l)
    \/ StartSubmit("a", Some(10), "Spanish")
    \/ StartComplete("a", Absent, "Spanish")
    \/ \E i \in DOMAIN ops : ProgressSelect(i)
    \/ \E i \in DOMAIN ops : SubmitSelect(i)
    \/ \E i \in DOMAIN ops : SubmitUpdate(i)
    \/ \E i \in DOMAIN ops : CompleteSelect(i)
    \/ \E i \in DOMAIN ops : CompleteUpdate(i)
    \/ \E i \in DOMAIN ops : CompleteBump(i)

SpecProgress == InitProgress /\ [][NextProgress]_vars

-----------------------------------------------------------------------------
(* The leaderboard: leaderboard queries, and submits of users a and b, in    *)
(* every interleaving, on a table of three or of twelve users who have       *)
(* submitted score 10 for Spanish some number of times before.               *)

BoardSizes == {3, 12}

\* the number of earlier submits of each account
BoardShapes ==
    {<<0, 0, 0, 0, 0, 0, 0, 0, 0, 0, 0, 0>>,
     <<0, 1, 2, 3, 4, 5, 6, 1, 2, 3, 4, 5>>,
     <<5, 4, 3, 2, 1, 0, 0, 1, 2, 3, 4, 5>>,
     <<1, 1, 1, 1, 1, 1, 1, 1, 1, 1, 0, 0>>}

InitBoard ==
    /\ \E size \in BoardSizes, shape \in BoardShapes :
          users = [e \in Emails |->
                      LET n == CHOOSE m \in DOMAIN Accounts : Accounts[m] = e
                      IN  IF n <= size THEN <<Practised(shape[n])>> ELSE <<>>]
    /\ ops = <<>>
    /\ queue = <<>>
    /\ now = 0
    /\ tz = 0
    /\ dbtz = 0
    /\ probe = NoProbe

NextBoard ==
    \/ StartLeaderboard
    \/ \E e \in {"a", "b"} : StartSubmit(e, Some(25), "Spanish")
    \/ \E i \in DOMAIN ops : LeaderboardSelect(i)
    \/ \E i \in DOMAIN ops : SubmitSelect(i)
    \/ \E i \in DOMAIN ops : SubmitUpdate(i)

SpecBoard == InitBoard /\ [][NextBoard]_vars

-----------------------------------------------------------------------------
(* The policies: the streak specification, and at any quiet moment both      *)
(* streak steps applied to user a's row as the requests have left it         *)

NextPolicies ==
    \/ ~probe.applied /\ StartStreak("a")
    \/ ~probe.applied /\ StartComplete("a", Absent, "")
    \/ \E i \in DOMAIN ops : CompleteSelect(i)
    \/ \E i \in DOMAIN ops : CompleteUpdate(i)
    \/ \E i \in DOMAIN ops : StreakSelect(i)
    \/ \E i \in DOMAIN ops : StreakUpdate(i)
    \/ ~probe.applied /\ Tick
    \/ ApplyPolicies

SpecPolicies == InitStreak /\ [][NextPolicies]_vars

-----------------------------------------------------------------------------
(* Registration: register requests for the registered a and the              *)
(* unregistered b, with and without the required fields, in every            *)
(* interleaving, any command failing (an INSERT the table refuses fails)     *)

NextRegister ==
    \/ \E e \in {"a", "b"}, f \in BOOLEAN : StartRegister(e, f)
    \/ \E i \in DOMAIN ops : RegisterSelect(i)
    \/ \E i \in DOMAIN ops : RegisterHashed(i)
    \/ \E i \in DOMAIN ops : RegisterInsert(i)
    \/ \E i \in DOMAIN ops : QueryFails(i)

SpecRegister == InitLedger /\ [][NextRegister]_vars

-----------------------------------------------------------------------------
(* The level rules on every experience value of a range *)

InitLevel ==
    /\ users = [e \in Emails |-> <<>>]
    /\ ops = <<>>
    /\ queue = <<>>
    /\ now = 0
    /\ tz = 0
    /\ dbtz = 0
    /\ probe \in {[NoProbe EXCEPT !.xp = e] : e \in (0 - MaxProbeXP)..MaxProbeXP}

NextLevel == ApplyLevel

SpecLevel == InitLevel /\ [][NextLevel]_vars

-----------------------------------------------------------------------------
(* Properties *)

\* the level the thresholds give an experience value
ThresholdLevel(e) ==
    CASE e < 100 -> "Beginner"
      [] e >= 100 /\ e < 300 -> "Intermediate"
      [] e >= 300 /\ e < 600 -> "Advanced"
      [] OTHER -> "Expert"

\* no request is in flight
Quiet == \A i \in DOMAIN ops : ops[i].pc = Done

\* request i has answered 200
Ok(i, kind) == ops[i].kind = kind /\ ops[i].pc = Done /\ ops[i].status = 200

\* request i ran alone and nothing has arrived since
Settled(i) == i = Len(ops) /\ ops[i].pc = Done /\ ops[i].solo

\* C1: whenever no register, submit or complete-lesson request is in flight,
\* every stored row's level is the level the thresholds give its stored xp.
LevelInSync ==
    Quiet => \A e \in Emails : \A k \in DOMAIN users[e] :
                 users[e][k].level = ThresholdLevel(users[e][k].xp)

\* a register, a submit and a complete-lesson have all succeeded and user a
\* has left Beginner
LevelInSyncWitness ==
    /\ Quiet
    /\ \E i, j, k \in DOMAIN ops :
          Ok(i, "register") /\ Ok(j, "submit") /\ Ok(k, "complete")
    /\ users["b"] # <<>>
    /\ users["a"][1].xp >= 100
    /\ users["a"][1].level = "Intermediate"

\* C2: on every experience value both handlers' level calc give Beginner iff
\* e < 100, Intermediate iff 100 <= e < 300, Advanced iff 300 <= e < 600 and
\* Expert iff e >= 600 (so 99, 100, 299, 300, 599, 600 give Beginner,
\* Intermediate, Intermediate, Advanced, Advanced, Expert), and they agree.
LevelThresholds ==
    probe.applied =>
        LET e == probe.xp
            BandsOf(level) ==
                /\ (level = "Beginner") <=> (e < 100)
                /\ (level = "Intermediate") <=> (100 =< e /\ e < 300)
                /\ (level = "Advanced") <=> (300 =< e /\ e < 600)
                /\ (level = "Expert") <=> (e >= 600)
            Boundary(level) ==
                /\ e = 99 => level = "Beginner"
                /\ e = 100 => level = "Intermediate"
                /\ e = 299 => level = "Intermediate"
                /\ e = 300 => level = "Advanced"
                /\ e = 599 => level = "Advanced"
                /\ e = 600 => level = "Expert"
        IN  /\ BandsOf(probe.submit) /\ Boundary(probe.submit)
            /\ BandsOf(probe.complete) /\ Boundary(probe.complete)
            /\ probe.submit = probe.complete

\* both calcs have been applied to the boundary value 300
LevelThresholdsWitness ==
    /\ probe.applied
    /\ probe.xp = 300
    /\ probe.submit = "Advanced"
    /\ probe.complete = "Advanced"


\* C3: a submit that ran alone on an existing user and a supported language
\* leaves xp = old xp + score * 10, the language's counter = old counter + 1
\* and level = the level of the new xp, and returns those three values; from
\* experience 0, score 10 and then score 25 for Spanish return
\* (100, Intermediate, 1) and (350, Advanced, 2).
SubmitEffect ==
    /\ \A i \in DOMAIN ops :
          Settled(i) /\ Ok(i, "submit") =>
              LET old == ops[i].pre[1]
                  new == users[ops[i].email][1]
                  lang == ops[i].lang
              IN  /\ new.xp = old.xp + Get(ops[i].arg) * 10
                  /\ new.progress[lang] = old.progress[lang] + 1
                  /\ new.level = ThresholdLevel(new.xp)
                  /\ ops[i].xp = new.xp
                  /\ ops[i].level = new.level
                  /\ ops[i].progress = new.progress[lang]
    /\ ( /\ Len(ops) >= 2
         /\ \A i \in {1, 2} :
               /\ Ok(i, "submit") /\ ops[i].solo
               /\ ops[i].email = "a" /\ ops[i].lang = "Spanish"
         /\ ops[1].arg = Some(10)
         /\ ops[2].arg = Some(25) )
       => /\ <<ops[1].xp, ops[1].level, ops[1].progress>> = <<100, "Intermediate", 1>>
          /\ <<ops[2].xp, ops[2].level, ops[2].progress>> = <<350, "Advanced", 2>>

\* score 10 and then score 25 for Spanish have been submitted one after the
\* other by the fresh user a
SubmitEffectWitness ==
    /\ Len(ops) = 2
    /\ Settled(2)
    /\ \A i \in {1, 2} :
          /\ Ok(i, "submit") /\ ops[i].solo
          /\ ops[i].email = "a" /\ ops[i].lang = "Spanish"
    /\ ops[1].arg = Some(10)
    /\ ops[2].arg = Some(25)
    /\ ops[1].pre = <<NewUser>>
    /\ users["a"][1].xp = 350
    /\ users["a"][1].progress["Spanish"] = 2


\* the streak the date-identity rule gives: none before -> 1, yesterday ->
\* streak + 1, today -> unchanged, any other date -> 1
IdentityRule(last_active, streak, ref) ==
    IF last_active = Absent THEN 1
    ELSE IF Get(last_active) = ref - 1 THEN streak + 1
    ELSE IF Get(last_active) = ref THEN streak
    ELSE 1

\* C4: an update-streak request leaves the streak the date-identity rule
\* gives for the stored last-active date and the reference date (the
\* handler's today), leaves last_active = the reference date, and returns the
\* new streak.
StreakPolicyA ==
    \A i \in DOMAIN ops :
        Settled(i) /\ Ok(i, "streak") =>
            LET old == ops[i].pre[1]
                new == users[ops[i].email][1]
                ref == Get(ops[i].today)
            IN  /\ new.streak = IdentityRule(old.last_active, old.streak, ref)
                /\ new.last_active = Some(ref)
                /\ ops[i].streak = new.streak


\* the streak the day-difference rule gives: none before -> 1, diff = 1 ->
\* streak + 1, diff > 1 -> 1, diff = 0 or negative -> unchanged, where
\* diff = reference date - last-active date
DifferenceRule(last_active, streak, ref) ==
    IF last_active = Absent THEN 1
    ELSE LET diff == ref - Get(last_active)
         IN  IF diff = 1 THEN streak + 1
             ELSE IF diff > 1 THEN 1
             ELSE streak

\* C5: a complete-lesson request leaves the streak the day-difference rule
\* gives for the stored last-active date and the reference date (the
\* handler's today), and leaves last_active = the reference date.
CompletePolicyB ==
    \A i \in DOMAIN ops :
        Settled(i) /\ Ok(i, "complete") =>
            LET old == ops[i].pre[1]
                new == users[ops[i].email][1]
                ref == Get(ops[i].today)
            IN  /\ new.streak = DifferenceRule(old.last_active, old.streak, ref)
                /\ new.last_active = Some(ref)

\* C6: no step replaces a stored last-active date with an earlier date (or
\* with none).
LastActiveForward ==
    [][\A e \in Emails : \A k \in DOMAIN users[e] :
          users[e][k].last_active # Absent =>
              /\ users'[e][k].last_active # Absent
              /\ Get(users'[e][k].last_active) >= Get(users[e][k].last_active)]_vars


\* C7: no step lowers a stored lesson counter.
LessonProgressMonotone ==
    [][\A e \in Emails : \A k \in DOMAIN users[e] : \A l \in SupportedLangs :
          users'[e][k].progress[l] >= users[e][k].progress[l]]_vars

\* requests i and j are the only requests for their user, both have answered
\* 200, and both computed from the same stored xp
ReadSameXp(i, j) ==
    /\ i # j
    /\ ops[i].email = ops[j].email
    /\ \A k \in DOMAIN ops \ {i, j} : ops[k].email # ops[i].email
    /\ \E ki, kj \in {"submit", "complete"} : Ok(i, ki) /\ Ok(j, kj)
    /\ ops[i].xp - ops[i].gain = ops[j].xp - ops[j].gain

\* C8: two requests on one user whose reads both precede both writes lose an
\* update: after both have answered, the stored xp is what one of them wrote,
\* less than the xp both read plus both gains, and two such submits for one
\* language leave the counter one above what both read, not two.
LostUpdate ==
    \A i, j \in DOMAIN ops :
        ReadSameXp(i, j) =>
            LET row == users[ops[i].email][1]
            IN  /\ row.xp \in {ops[i].xp, ops[j].xp}
                /\ row.xp < (ops[i].xp - ops[i].gain) + ops[i].gain + ops[j].gain
                /\ ( /\ ops[i].kind = "submit" /\ ops[j].kind = "submit"
                     /\ ops[i].lang = ops[j].lang )
                   => /\ ops[i].progress = ops[j].progress
                      /\ row.progress[ops[i].lang] = ops[i].progress

\* user a's submits of score 10 and score 25 both read xp 0 and counter 0;
\* both answered, and 100 of the 350 points and one of the two lessons are gone
LostUpdateWitness ==
    /\ Len(ops) = 2
    /\ ReadSameXp(1, 2)
    /\ ops[1].kind = "submit" /\ ops[1].arg = Some(10)
    /\ ops[2].kind = "submit" /\ ops[2].arg = Some(25)
    /\ ops[1].pre = <<NewUser>>
    /\ users["a"][1].xp = 250
    /\ users["a"][1].progress["Spanish"] = 1

\* C9: a row with a last-active date has streak >= 1, and so has the row of
\* every user an update-streak or complete-lesson request has answered 200 for.
StreakAtLeastOne ==
    \A e \in Emails : \A k \in DOMAIN users[e] :
        /\ users[e][k].last_active # Absent => users[e][k].streak >= 1
        /\ (\E i \in DOMAIN ops :
               ops[i].email = e /\ (Ok(i, "streak") \/ Ok(i, "complete")))
           => users[e][k].streak >= 1

\* a request that found streak 2 and a last-active date at least two days
\* before its today has run alone and left streak 1
StreakAtLeastOneWitness ==
    \E i \in DOMAIN ops :
        /\ Settled(i)
        /\ Ok(i, "streak") \/ Ok(i, "complete")
        /\ ops[i].pre[1].streak = 2
        /\ Get(ops[i].today) - Get(ops[i].pre[1].last_active) >= 2
        /\ users[ops[i].email][1].streak = 1

\* requests 1..n are update-streak requests of user a that ran one after the
\* other, each on the day after the one before, the first finding no activity
DailyPings(n) ==
    /\ n <= Len(ops)
    /\ \A i \in 1..n :
          /\ Ok(i, "streak") /\ ops[i].solo /\ ops[i].email = "a"
          /\ i > 1 => Get(ops[i].today) = Get(ops[i - 1].today) + 1
    /\ n >= 1 => ops[1].pre = <<NewUser>>

\* C10: after update-streak on each of k consecutive days, from no activity,
\* streak = k and last_active = the k-th day; a next call three days after
\* the last leaves streak 1.
ConsecutiveDays ==
    LET k == Len(ops)
    IN  /\ (k >= 1 /\ DailyPings(k) /\ Settled(k)) =>
              /\ users["a"][1].streak = k
              /\ users["a"][1].last_active = ops[k].today
        /\ ( /\ k >= 2 /\ DailyPings(k - 1) /\ Settled(k)
             /\ Ok(k, "streak") /\ ops[k].email = "a"
             /\ Get(ops[k].today) = Get(ops[k - 1].today) + 3 )
           => users["a"][1].streak = 1

\* request i, of this handler, has answered with this status
Failed(i, kind, status) ==
    ops[i].kind = kind /\ ops[i].pc = Done /\ ops[i].status = status

CompleteEffect ==
    \A i \in DOMAIN ops :
        Settled(i) /\ Ok(i, "complete") =>
            LET old == ops[i].pre[1]
                new == users[ops[i].email][1]
                gained == IF ops[i].arg = Absent THEN 20 ELSE Get(ops[i].arg)
            IN  /\ new.xp = old.xp + gained
                /\ new.level = ThresholdLevel(new.xp)
                /\ new.streak = DifferenceRule(old.last_active, old.streak,
                                               Get(ops[i].today))
                /\ ops[i].xp = new.xp
                /\ ops[i].level = new.level
                /\ ops[i].streak = new.streak

\* C13: a complete-lesson request without a language that ran alone leaves
\* xp = old xp + gainedXP, the level of the new xp, the streak it returns and
\* last_active = its today, and every lesson counter as it was; no step of
\* such a request changes a lesson counter of its user or any row of another
\* user.
CompleteFrame ==
    /\ [](\A i \in DOMAIN ops :
            Settled(i) /\ Ok(i, "complete") /\ ops[i].lang = "" =>
                LET old == ops[i].pre[1]
                    new == users[ops[i].email][1]
                IN  /\ new.xp = old.xp + GainedXP(ops[i].arg)
                    /\ new.level = ThresholdLevel(new.xp)
                    /\ new.streak = ops[i].streak
                    /\ new.streak >= 1
                    /\ new.last_active = ops[i].today
                    /\ new.last_active # Absent
                    /\ new.progress = old.progress)
    /\ [][queue # <<>> =>
              LET o == ops[Head(queue)]
              IN  o.kind = "complete" /\ o.lang = "" =>
                      /\ \A e \in Emails \ {o.email} : users'[e] = users[e]
                      /\ \A k \in DOMAIN users[o.email] :
                             users'[o.email][k].progress = users[o.email][k].progress]_vars

\* after a lesson for Spanish, a lesson without a language has run alone:
\* user a has more xp, a last-active date and the Spanish counter still 1,
\* and user b's row is as registered
CompleteFrameWitness ==
    /\ Len(ops) = 2
    /\ Ok(1, "complete") /\ ops[1].lang = "Spanish"
    /\ Settled(2) /\ Ok(2, "complete") /\ ops[2].lang = ""
    /\ users["a"][1].xp = ops[2].pre[1].xp + 20
    /\ users["a"][1].last_active = ops[2].today
    /\ users["a"][1].progress["Spanish"] = 1
    /\ users["b"] = <<NewUser>>

Mutation(i) == ops[i].kind \in {"submit", "complete", "streak"}

\* the row has the xp, level, streak and last-active date request i computed
PrimaryWritten(i, row) ==
    /\ row.xp = ops[i].xp
    /\ row.level = ops[i].level
    /\ row.streak = ops[i].streak
    /\ row.last_active = ops[i].today

\* C15 as stated: when a submit, complete-lesson or update-streak request
\* that ran alone has answered 500, its user's xp, level and streak are as
\* the request found them.
AtomicFailure ==
    \A i \in DOMAIN ops :
        Settled(i) /\ Mutation(i) /\ ops[i].status = 500 =>
            LET old == ops[i].pre[1]
                new == users[ops[i].email][1]
            IN  <<new.xp, new.level, new.streak>> = <<old.xp, old.level, old.streak>>

\* C15 amended: when a submit, complete-lesson or update-streak request that
\* ran alone has answered 500, its user's row is as the request found it,
\* unless the command that failed is complete-lesson's counter bump: then the
\* row has the xp, level, streak and last-active date of the main UPDATE and
\* the counters as the request found them.
AtomicFailureButBump ==
    \A i \in DOMAIN ops :
        Settled(i) /\ Mutation(i) /\ ops[i].status = 500 =>
            LET old == ops[i].pre[1]
                new == users[ops[i].email][1]
            IN  IF ops[i].kind = "complete" /\ ops[i].failed = "bump"
                THEN /\ PrimaryWritten(i, new)
                     /\ new.xp = old.xp + GainedXP(ops[i].arg)
                     /\ new.progress = old.progress
                ELSE new = old

\* a submit whose UPDATE failed has left the row as it was, and then a
\* lesson for Spanish whose bump failed has left 20 xp and streak 1
AtomicFailureButBumpWitness ==
    /\ Len(ops) = 2
    /\ ops[1].solo /\ Failed(1, "submit", 500) /\ ops[1].failed = "update"
    /\ ops[2].pre = <<NewUser>>
    /\ Settled(2) /\ Failed(2, "complete", 500) /\ ops[2].failed = "bump"
    /\ users["a"][1].xp = 20
    /\ users["a"][1].streak = 1
    /\ users["a"][1].progress["Spanish"] = 0

\* request i is a complete-lesson request for a language that has a column,
\* and every other request so far is a progress query
OnlyLesson(i) ==
    /\ ops[i].kind = "complete"
    /\ ops[i].lang \in SupportedLangs
    /\ \A j \in DOMAIN ops \ {i} : ops[j].kind = "progress"

\* C16: a complete-lesson request for a language that has a column writes at
\* most twice: its main UPDATE first, which leaves the counters alone, and
\* its bump after it, which adds 1 to the language's counter and changes
\* nothing else.  While the bump is pending the row has the new xp, level,
\* streak and last-active date and the old counter; it has both writes once
\* the request has answered 200, and the first only when the bump has failed.
TwoWrites ==
    /\ [](\A i \in DOMAIN ops :
            OnlyLesson(i) =>
                LET old == ops[i].pre[1]
                    new == users[ops[i].email][1]
                    lang == ops[i].lang
                IN  /\ ops[i].pc \in {"select", "update"} => new = old
                    /\ ops[i].pc = "bump" =>
                           PrimaryWritten(i, new) /\ new.progress = old.progress
                    /\ Ok(i, "complete") =>
                           /\ PrimaryWritten(i, new)
                           /\ new.progress = [old.progress EXCEPT ![lang] = @ + 1]
                    /\ (ops[i].status = 500 /\ ops[i].failed = "bump") =>
                           PrimaryWritten(i, new) /\ new.progress = old.progress
                    /\ (ops[i].status = 500 /\ ops[i].failed # "bump") => new = old)
    /\ [][queue # <<>> =>
              LET i == Head(queue)
                  e == ops[i].email
              IN  ops[i].kind = "complete" /\ users' # users =>
                      \/ /\ ops[i].pc = "update"
                         /\ ops'[i].pc \in {"bump", Done}
                         /\ \A k \in DOMAIN users[e] :
                                users'[e][k].progress = users[e][k].progress
                      \/ /\ ops[i].pc = "bump"
                         /\ ops'[i].pc = Done
                         /\ users'[e] =
                                [k \in DOMAIN users[e] |->
                                    [users[e][k] EXCEPT
                                        !.progress[ops[i].lang] = @ + 1]]]_vars

\* a progress query has answered between the two writes of a lesson for
\* Spanish: it returned the 20 xp of the main UPDATE and 0 lessons, and the
\* bump is still pending
TwoWritesWitness ==
    \E i, j \in DOMAIN ops :
        /\ OnlyLesson(i) /\ ops[i].pc = "bump"
        /\ ops[i].pre = <<NewUser>>
        /\ Ok(j, "progress")
        /\ ops[j].xp = 20
        /\ ops[j].progress = 0
        /\ users["a"][1].xp = 20
        /\ users["a"][1].progress["Spanish"] = 0

\* C17: no stored xp is negative.
ExperienceNonNegative ==
    \A e \in Emails : \A k \in DOMAIN users[e] : users[e][k].xp >= 0

\* C18: after two submits with the same email, language and score s, run
\* one after the other, xp is 2 * s * 10 and the language's counter 2 above
\* what the first found; the row after the second differs from the row after
\* the first in the counter, and in xp when s > 0.
SubmitTwice ==
    \A i \in DOMAIN ops :
        ( /\ i >= 2 /\ Settled(i) /\ ops[i - 1].solo
          /\ Ok(i - 1, "submit") /\ Ok(i, "submit")
          /\ ops[i].email = ops[i - 1].email
          /\ ops[i].lang = ops[i - 1].lang
          /\ ops[i].arg = ops[i - 1].arg ) =>
            LET first == ops[i - 1].pre[1]
                between == ops[i].pre[1]
                last == users[ops[i].email][1]
                lang == ops[i].lang
                s == Get(ops[i].arg)
            IN  /\ last.xp = first.xp + 2 * s * 10
                /\ last.progress[lang] = first.progress[lang] + 2
                /\ last.progress[lang] # between.progress[lang]
                /\ last # between
                /\ s > 0 => last.xp # between.xp

\* score 0 has been submitted twice for Spanish by the fresh user a: xp is
\* still 0 and the counter is 2
SubmitTwiceWitness ==
    /\ Len(ops) = 2
    /\ Settled(2) /\ ops[1].solo
    /\ Ok(1, "submit") /\ Ok(2, "submit")
    /\ ops[1].pre = <<NewUser>>
    /\ ops[1].arg = Some(0) /\ ops[2].arg = Some(0)
    /\ ops[1].lang = "Spanish" /\ ops[2].lang = "Spanish"
    /\ users["a"][1].xp = 0
    /\ users["a"][1].progress["Spanish"] = 2

\* C19: a progress query that ran alone returns the stored xp, level and
\* counter of the language, changes nothing, and returns 0 lessons for a
\* language whose counter is 0; every progress query that answers 200 returns
\* totalLessons = 10; and 10 is no cap: a submit or a complete-lesson for the
\* language, run alone, answers 200 and leaves the counter one higher, also
\* when it was 10 or more.
ProgressQuery ==
    /\ \A i \in DOMAIN ops : Ok(i, "progress") => ops[i].total = 10
    /\ \A i \in DOMAIN ops :
          Settled(i) /\ Ok(i, "progress") =>
              LET row == users[ops[i].email][1]
              IN  /\ ops[i].xp = row.xp
                  /\ ops[i].level = row.level
                  /\ ops[i].progress = row.progress[ops[i].lang]
                  /\ row.progress[ops[i].lang] = 0 => ops[i].progress = 0
                  /\ users[ops[i].email] = ops[i].pre
    /\ \A i \in DOMAIN ops :
          ( /\ Settled(i) /\ ops[i].kind \in {"submit", "complete"}
            /\ ops[i].lang \in SupportedLangs /\ ops[i].pre # <<>> ) =>
              /\ ops[i].status = 200
              /\ users[ops[i].email][1].progress[ops[i].lang] =
                     ops[i].pre[1].progress[ops[i].lang] + 1

\* user a had 10 lessons of Spanish and has submitted one more; then a query
\* for French returned 0 of 10 and a query for Spanish 11 of 10
ProgressQueryWitness ==
    /\ Len(ops) = 3
    /\ ops[1].pre = <<Practised(10)>>
    /\ Ok(1, "submit") /\ ops[1].solo
    /\ Ok(2, "progress") /\ ops[2].solo /\ ops[2].lang = "French"
    /\ <<ops[2].progress, ops[2].total>> = <<0, 10>>
    /\ Settled(3) /\ Ok(3, "progress") /\ ops[3].lang = "Spanish"
    /\ <<ops[3].xp, ops[3].level, ops[3].progress, ops[3].total>> =
           <<1100, "Expert", 11, 10>>

\* C20: a leaderboard query returns at most 10 rows, no row twice, a row of
\* more xp before a row of less; when it ran alone it returns the xp the
\* rows have, 10 rows or the whole table if that is smaller, and every row
\* it left out has no more xp than any row it returned.
LeaderboardTop ==
    /\ \A i \in DOMAIN ops :
          Ok(i, "leaderboard") =>
              LET board == ops[i].board
              IN  /\ Len(board) <= 10
                  /\ \A p, q \in DOMAIN board :
                         p < q => board[p].xp >= board[q].xp /\ board[p].row # board[q].row
    /\ \A i \in DOMAIN ops :
          Settled(i) /\ Ok(i, "leaderboard") =>
              LET board == ops[i].board
                  rows == RowsOf(users)
                  returned == {board[p].row : p \in DOMAIN board}
              IN  /\ returned \subseteq rows
                  /\ Len(board) = IF Cardinality(rows) < 10 THEN Cardinality(rows) ELSE 10
                  /\ \A p \in DOMAIN board :
                         /\ board[p].xp = users[board[p].row[1]][board[p].row[2]].xp
                         /\ board[p].level = users[board[p].row[1]][board[p].row[2]].level
                  /\ \A r \in rows \ returned : \A p \in DOMAIN board :
                         users[r[1]][r[2]].xp <= board[p].xp

\* a leaderboard query has run alone on a table of twelve rows: it returned
\* ten rows, the first with more xp than the last, and left out a row with
\* as much xp as the last row returned
LeaderboardTopWitness ==
    \E i \in DOMAIN ops :
        /\ Settled(i) /\ Ok(i, "leaderboard")
        /\ Cardinality(RowsOf(users)) = 12
        /\ Len(ops[i].board) = 10
        /\ ops[i].board[1].xp > ops[i].board[10].xp
        /\ \E r \in RowsOf(users) \ {ops[i].board[p].row : p \in DOMAIN ops[i].board} :
               users[r[1]][r[2]].xp = ops[i].board[10].xp

\* C21: on the same row and the same reference date (both handlers' today),
\* update-streak's step and complete-lesson's step leave the same streak and
\* the same last-active date whenever the row has no last-active date or one
\* not after the reference date; when it is after the reference date,
\* update-streak's leaves streak 1 and complete-lesson's the streak as it was.
PoliciesAgree ==
    (probe.applied /\ probe.A.today = probe.B.today) =>
        LET ref == Get(probe.A.today)
            last == probe.row.last_active
        IN  /\ (last = Absent \/ Get(last) <= ref) =>
                   /\ probe.A.streak = probe.B.streak
                   /\ probe.A.last_active = probe.B.last_active
            /\ (last # Absent /\ Get(last) > ref) =>
                   /\ probe.A.streak = 1
                   /\ probe.B.streak = probe.row.streak

\* the calendar days of the update-streak and complete-lesson calls so
\* far: the today of every such request that has read its row
CallDays ==
    {Get(ops[i].today) : i \in {j \in DOMAIN ops : ops[j].today # Absent}}

\* C22: from a user with no activity, in every interleaving and across day
\* changes, the stored streak is at most the number of distinct calendar days
\* of the update-streak and complete-lesson calls made so far.
StreakWithinDays ==
    (ops # <<>> /\ ops[1].pre = <<NewUser>>) =>
        users["a"][1].streak <= Cardinality(CallDays)

\* C23: no email has more than one row, in every interleaving of register
\* requests; and a register request for an email that had a row when it
\* arrived answers 409 (unless its SELECT failed) and leaves the email's
\* rows as they were.
UniqueEmail ==
    /\ \A e \in Emails : Len(users[e]) <= 1
    /\ \A i \in DOMAIN ops :
          ( /\ ops[i].kind = "register" /\ ops[i].pc = Done
            /\ ops[i].status # 400 /\ ops[i].pre # <<>> ) =>
              /\ ops[i].status \in {409, 500}
              /\ ops[i].status = 500 => ops[i].failed = "select"
              /\ Settled(i) => users[ops[i].email] = ops[i].pre

====
